---- MODULE Spec2Model ----
(***************************************************************************)
(* Model of the CS2 update announcer (src/src/cs2_poster): the polling     *)
(* loop of main.py, the state file of state_manager.py, the feed           *)
(* selection of steam_client.py and post_update of reddit_client.py.       *)
(*                                                                         *)
(* Python's None is the integer None (timestamps are >= 1); a missing      *)
(* string field of a feed item is the empty string, which the code treats  *)
(* like None (`not ann_gid`, `not title`).                                 *)
(***************************************************************************)
EXTENDS Integers, Sequences, FiniteSets, TLC

\* ------------------------------------------------------------------ bounds
MaxTs == 2          \* feed timestamps are 1..MaxTs
MaxBatch == 2       \* raw items in one feed response
MaxCycles == 2      \* fetches over the whole run
MaxRestarts == 1    \* process restarts
MaxText == 4        \* characters of a text given to the line post-pass

\* --------------------------------------------------------- program constants
None == -1
error_wait_time == 30
steam_poll_interval_seconds == 10
\* the minimum interval between publishes the specification names (7200 s);
\* no constant of the code corresponds to it
MIN_INTERVAL == 7200

STATE_KEY_LAST_EVENT_POSTTIME == "last_processed_event_posttime"
\* a key of the state file other than the one the code knows: the
\* specification's last-publish-time key
KEY_LAST_PUBLISH == "last_publish_time"

Timestamps == 1..MaxTs

\* ------------------------------------------------------------------ dicts
\* A Python dict with string keys and integer values is a function whose
\* domain is the set of its keys.
EmptyDict == [k \in {} |-> 0]
DictGet(d, k) == IF k \in DOMAIN d THEN d[k] ELSE None
DictSet(d, k, v) == [x \in (DOMAIN d) \cup {k} |-> IF x = k THEN v ELSE d[x]]

\* ------------------------------------------------------------- state file
\* The file on disk: absent, text that is not JSON, or the JSON text of an
\* object, held as its set of <<key, value>> members.
json_dump(d) == {<<k, d[k]>> : k \in DOMAIN d}
json_load(pairs) == [k \in {p[1] : p \in pairs} |-> (CHOOSE p \in pairs : p[1] = k)[2]]

MissingFile == [kind |-> "missing", pairs |-> {}]
CorruptFile == [kind |-> "corrupt", pairs |-> {}]
JsonFile(d) == [kind |-> "json", pairs |-> json_dump(d)]

\* JSON text that is not an object, such as [] : json.load gives a list
JsonArrayFile == [kind |-> "json_array", pairs |-> {}]

\* The Python type of the value load_state returns (line 22-24 return
\* whatever json.load produced).
load_state_type(f) == IF f.kind = "json_array" THEN "list" ELSE "dict"

\* state.get of state_manager.py:49 exists on a dict; on a list the
\* attribute lookup raises AttributeError.
HasGet(type) == type = "dict"

\* load_state as it would be if the file were never found
load_state_empty(f) == EmptyDict

\* state_manager.load_state: the parsed object, or {} when the file is
\* missing, unreadable or not JSON. (For JSON that is not an object the
\* value is no dict, see load_state_type; its members are not used.)
load_state(f) == IF f.kind = "json" THEN json_load(f.pairs) ELSE EmptyDict

\* save_state as it would be if it never wrote
save_state_unwritten(state_data, f, io) == f

\* save_state as it would be if it wrote the cursor key only
save_state_known_keys(state_data, f, io) ==
    CASE io = "ok" ->
            JsonFile([k \in DOMAIN state_data \cap {STATE_KEY_LAST_EVENT_POSTTIME}
                        |-> state_data[k]])
      [] io = "open_failed" -> f
      [] OTHER -> CorruptFile

\* state_manager.save_state under the three outcomes of its I/O: written;
\* open() refused (file untouched); the write failed after open("w")
\* truncated the file. No outcome raises.
SaveOutcomes == {"ok", "open_failed", "write_failed"}
save_state(state_data, f, io) ==
    CASE io = "ok" -> JsonFile(state_data)
      [] io = "open_failed" -> f
      [] OTHER -> CorruptFile

get_last_processed_posttime(state) == DictGet(state, STATE_KEY_LAST_EVENT_POSTTIME)
\* set_last_processed_posttime as it would be without the assignment
set_last_processed_posttime_unset(state, posttime) == state
set_last_processed_posttime(state, posttime) ==
    DictSet(state, STATE_KEY_LAST_EVENT_POSTTIME, posttime)

\* ------------------------------------------------------------------- feed
HeadlineUpdate == "Counter-Strike 2 Update"
HeadlineOther == "Premier Season Two"

\* One entry of data["events"]: ann is whether it has an announcement_body.
\* Complete items with a keyword headline (two gids), a complete item
\* without one that is as new as any, and one item for each way of being
\* incomplete.
RawItems ==
    [ann : {TRUE}, gid : {"g1", "g2"}, headline : {HeadlineUpdate}, posttime : Timestamps]
    \cup {[ann |-> TRUE, gid |-> "g3", headline |-> HeadlineOther, posttime |-> MaxTs],
          [ann |-> FALSE, gid |-> "g1", headline |-> HeadlineUpdate, posttime |-> MaxTs],
          [ann |-> TRUE, gid |-> "", headline |-> HeadlineUpdate, posttime |-> MaxTs],
          [ann |-> TRUE, gid |-> "g1", headline |-> "", posttime |-> MaxTs],
          [ann |-> TRUE, gid |-> "g1", headline |-> HeadlineUpdate, posttime |-> None]}

Batches == UNION {[1..n -> RawItems] : n \in 0..MaxBatch}

keywords == {"update", "release notes", "patch", "counter-strike 2"}
\* the keywords that occur in title.lower()
KeywordsIn(title) ==
    CASE title = HeadlineUpdate -> {"update", "counter-strike 2"}
      [] OTHER -> {}

NoEvent == [gid |-> "", title |-> "", body_bbcode |-> "", timestamp |-> None, url |-> ""]

\* steam_client.SteamClient._parse_event_data: NoEvent stands for None.
_parse_event_data(event_data) ==
    IF ~event_data.ann THEN NoEvent
    ELSE IF event_data.gid = "" \/ event_data.headline = "" \/ event_data.posttime = None
         THEN NoEvent
    ELSE IF KeywordsIn(event_data.headline) \cap keywords = {} THEN NoEvent
    ELSE [gid |-> event_data.gid, title |-> event_data.headline, body_bbcode |-> "",
          timestamp |-> event_data.posttime, url |-> event_data.gid]

\* lines 115-119: the parsed items, in feed order
RECURSIVE ParseAll(_)
ParseAll(raw_events) ==
    IF raw_events = <<>> THEN <<>>
    ELSE LET parsed_event == _parse_event_data(Head(raw_events))
         IN  (IF parsed_event = NoEvent THEN <<>> ELSE <<parsed_event>>)
             \o ParseAll(Tail(raw_events))

\* line 122: list.sort(key=timestamp), a stable insertion of each element
\* after the elements whose key is not greater
RECURSIVE InsertSorted(_, _)
InsertSorted(e, s) ==
    IF s = <<>> THEN <<e>>
    ELSE IF Head(s).timestamp <= e.timestamp
         THEN <<Head(s)>> \o InsertSorted(e, Tail(s))
         ELSE <<e>> \o s

\* fetch_latest_events as it would be without the sort of line 122
Unsorted(s) == s

RECURSIVE SortByTimestamp(_)
SortByTimestamp(s) ==
    IF s = <<>> THEN <<>>
    ELSE InsertSorted(s[Len(s)], SortByTimestamp(SubSeq(s, 1, Len(s) - 1)))

TimestampsOf(events) == [i \in 1..Len(events) |-> events[i].timestamp]

\* fetch_latest_events as it would be without the reduction to the newest event
SelectAll(all_parsed_in_batch) == all_parsed_in_batch

\* lines 125-132: only the newest parsed event is kept
SelectLatest(all_parsed_in_batch) ==
    IF all_parsed_in_batch # <<>>
    THEN <<all_parsed_in_batch[Len(all_parsed_in_batch)]>>
    ELSE <<>>

\* the comparison of line 137 as it would be with >= for >
IsNewerOrEqual(timestamp, last_event_posttime) == timestamp >= last_event_posttime

\* line 137
IsNewer(timestamp, last_event_posttime) == timestamp > last_event_posttime

\* lines 134-147
FilterNewer(all_parsed_in_batch, last_event_posttime) ==
    IF last_event_posttime # None
    THEN SelectSeq(all_parsed_in_batch, LAMBDA pe : IsNewer(pe.timestamp, last_event_posttime))
    ELSE all_parsed_in_batch

\* The responses of the feed request: a 2xx JSON body with success == 1, or
\* one of the failures.
Responses == {"ok", "http_status_error", "request_error", "invalid_json", "success_not_1"}

\* lines 97-132 up to the sort: all_parsed_in_batch, or <<>> when the
\* request failed, the body is not JSON, success is not 1 or events is empty
\* (every such case is logged and returns [] like a feed without news)
AllParsedInBatch(response, raw_events) ==
    IF response # "ok" THEN <<>>
    ELSE IF raw_events = <<>> THEN <<>>
    ELSE SortByTimestamp(ParseAll(raw_events))

\* fetch_latest_events as it would be without its except clauses
fetch_raises_uncaught(response) ==
    response \in {"http_status_error", "request_error", "invalid_json"}

\* lines 97, 154-159: every exception of the request and of the parsing is
\* caught and logged inside fetch_latest_events; none reaches the caller
fetch_raises(response) == FALSE

\* steam_client.SteamClient.fetch_latest_events
fetch_latest_events(response, raw_events, last_event_posttime) ==
    FilterNewer(SelectLatest(AllParsedInBatch(response, raw_events)), last_event_posttime)

\* ---------------------------------------------------------------- publish
\* data_models.ParsedSteamEvent: the attributes an event object has.
ParsedSteamEventFields == {"gid", "title", "body_bbcode", "timestamp", "url"}

\* getattr on a frozen dataclass instance: an attribute that is no field
\* raises AttributeError.
HasAttr(event, name) == name \in ParsedSteamEventFields /\ name \in DOMAIN event

\* datetime.fromtimestamp(timestamp, UTC).strftime("%m/%d/%Y"): the UTC
\* calendar day, as the number of the day since the epoch
UtcDate(timestamp) == timestamp \div 86400

\* reddit_client.RedditClient._format_post_title: the date of the title and
\* the number after "#" (None for a title without one), or the exception
\* that leaves the method.
_format_post_title(event) ==
    IF ~HasAttr(event, "sequence_number")
    THEN \* line 60 reads event.sequence_number
         [result |-> "AttributeError", date |-> UtcDate(event.timestamp),
          suffix |-> None]
    ELSE [result |-> "title", date |-> UtcDate(event.timestamp),
          suffix |-> IF event["sequence_number"] > 1
                     THEN event["sequence_number"] ELSE None]

\* event.sequence_number as a caller reads it; None where the event has no
\* such attribute
SequenceNumberOf(event) ==
    IF HasAttr(event, "sequence_number") THEN event["sequence_number"] ELSE None

\* config.load_configuration: REDDIT_FLAIR_TEXT defaults to "Game Update"
reddit_flair_text == "Game Update"

\* The outcomes of the flair listing of the subreddit.
FlairOutcomes == {"found", "not_found", "forbidden", "error"}

\* reddit_client.RedditClient._find_flair_id: the flair id, or "" for None
_find_flair_id(flair_text, flair) ==
    IF flair_text = "" THEN "" ELSE IF flair = "found" THEN "flair-id" ELSE ""

\* reddit_client.RedditClient.post_update. flair, submitOk and replyOk are
\* what the Reddit API would answer to the flair listing, to submit() and
\* to reply(). The value is the result ("True", "False", or the exception
\* that leaves the method) and the API calls made, in order.
post_update(event, flair, submitOk, replyOk) ==
    LET lookup == IF reddit_flair_text # "" THEN <<"link_templates">> ELSE <<>>
        flair_id_to_use == _find_flair_id(reddit_flair_text, flair)
    IN  IF ~HasAttr(event, "is_cs2_patchnote")
        THEN \* line 181 reads event.is_cs2_patchnote outside any try
             [result |-> "AttributeError", calls |-> lookup, flair_id |-> flair_id_to_use]
        ELSE IF ~submitOk
        THEN [result |-> "False", calls |-> lookup \o <<"submit">>, flair_id |-> flair_id_to_use]
        ELSE [result |-> "True",
              calls |-> lookup \o <<"submit">>
                        \o (IF event["is_cs2_patchnote"] THEN <<"reply">> ELSE <<>>),
              flair_id |-> flair_id_to_use]

\* ------------------------------------------------------------------ state
VARIABLES
    file,            \* the state file on disk
    app_state,       \* polling_loop's app_state dict
    last_posttime,   \* polling_loop's last_posttime
    keep_running,    \* the module global cleared by signal_handler
    pc,              \* where polling_loop is
    new_events,      \* the list fetch_latest_events returned
    idx,             \* position of the for loop in new_events
    now,             \* wall-clock time, in seconds
    cycles,          \* fetches made so far, over all restarts
    restarts,        \* restarts so far
    fetch_cursor,    \* history: the last_event_posttime this cycle's fetch was given
    batch,           \* history: the timestamps of all_parsed_in_batch after the sort
    offered,         \* history: the events given to post_update in this cycle
    outcome,         \* history: what the last post_update of this cycle did
    accepting,       \* history: whether submit() would have succeeded then
    calls,           \* history: Reddit API calls made in this cycle
    posts,           \* history: <<gid, time>> of every successful submit
    saves,           \* history: save_state calls made in this cycle
    save_failed,     \* history: some save_state call did not write the file
    feed,            \* history: what this cycle's feed request answered
    raised,          \* history: the latest cycle ended in the except clause
    slept,           \* history: seconds slept since the latest fetch
    store_op,        \* history: the latest state_manager call and its outcome
    prev_file,       \* history: the file as the latest save_state found it
    loaded,          \* history: the members of the file at the latest load_state
    reddit,          \* history: what Reddit answered to the latest post_update
    raw_batch,       \* data["events"] of a feed response given to the fetch alone
    markdown_output, \* the text html2text rendered, given to the post-pass alone
    processed        \* the text _convert_bbcode_to_markdown returned for it

vars == <<file, app_state, last_posttime, keep_running, pc, new_events, idx, now,
          cycles, restarts, fetch_cursor, batch, offered, outcome, accepting,
          calls, posts, saves, save_failed, feed, raised, slept,
          store_op, prev_file, loaded, reddit, raw_batch, markdown_output,
          processed>>

hist == <<fetch_cursor, batch, offered, outcome, accepting, calls, posts, saves,
          save_failed, feed, raised, slept>>

store == <<store_op, prev_file, loaded>>

\* reddit before any post_update
NoAnswers == [flair |-> "none", submit |-> FALSE, reply |-> FALSE, flair_id |-> ""]

\* The variables of the observations made of one function at a time; the
\* polling loop leaves them alone.
aux == <<reddit, raw_batch, markdown_output, processed>>

AuxInit ==
    /\ reddit = NoAnswers
    /\ raw_batch = <<>>
    /\ markdown_output = <<>>
    /\ processed = <<>>

\* feed before the cycle's request. response is "ok" or "failed" once the
\* request is made, raw is len(raw_events), complete the number of raw
\* items that carry a gid, a headline and a posttime
NoFeed == [response |-> "none", raw |-> 0, complete |-> 0]

StartTimes == {0, MIN_INTERVAL - error_wait_time - steam_poll_interval_seconds}

\* The state files a start can find: none, garbage, or an object with or
\* without either key.
InitFiles ==
    {MissingFile, CorruptFile, JsonArrayFile}
    \cup {JsonFile(d) : d \in UNION {[ks -> Timestamps] : ks \in SUBSET {STATE_KEY_LAST_EVENT_POSTTIME}}}
    \cup {JsonFile(DictSet(d, KEY_LAST_PUBLISH, 0)) :
            d \in UNION {[ks -> Timestamps] : ks \in SUBSET {STATE_KEY_LAST_EVENT_POSTTIME}}}

\* The file holds no last-publish-time key: the time of the start is then
\* of no interest and is taken to be 0.
FileCursorless(f) == \A p \in f.pairs : p[1] # KEY_LAST_PUBLISH

Init ==
    /\ file \in InitFiles
    /\ app_state = EmptyDict
    /\ last_posttime = None
    /\ keep_running = TRUE
    /\ pc = "start"
    /\ new_events = <<>>
    /\ idx = 1
    /\ now \in StartTimes
    /\ (FileCursorless(file) => now = 0)
    /\ cycles = 0
    /\ restarts = 0
    /\ fetch_cursor = None
    /\ batch = <<>>
    /\ offered = <<>>
    /\ outcome = "none"
    /\ accepting = FALSE
    /\ calls = <<>>
    /\ posts = <<>>
    /\ saves = 0
    /\ save_failed = FALSE
    /\ feed = NoFeed
    /\ raised = FALSE
    /\ slept = 0
    /\ store_op = "none"
    /\ prev_file = MissingFile
    /\ loaded = {}
    /\ AuxInit

\* The specification's lastPublishTimestampSec: the value of the state
\* object's last-publish-time key. No line of the code reads or writes it.
LastPublishTimestampSec == DictGet(app_state, KEY_LAST_PUBLISH)

\* The specification's rate gate: a publish less than MIN_INTERVAL ago.
GateClosed ==
    /\ LastPublishTimestampSec # None
    /\ now - LastPublishTimestampSec < MIN_INTERVAL

\* the loop as it would be with the specification's rate gate before line 75
ProceedsToPostGated == keep_running /\ ~GateClosed

\* main.py 64-66: the only test between a fetched event and post_update
ProceedsToPost == keep_running

\* main.py 49-51. An AttributeError of line 50 is outside the loop's try:
\* it leaves polling_loop, and main (246-263) cleans up and exits.
LoadState ==
    /\ UNCHANGED aux
    /\ pc = "start"
    /\ IF HasGet(load_state_type(file))
       THEN /\ app_state' = load_state(file)
            /\ last_posttime' = get_last_processed_posttime(load_state(file))
            /\ pc' = "while"
       ELSE /\ pc' = "crashed"
            /\ UNCHANGED <<app_state, last_posttime>>
    /\ store_op' = "load"
    /\ loaded' = file.pairs
    /\ UNCHANGED <<file, keep_running, new_events, idx, now, cycles, restarts, hist,
                   prev_file>>

\* the number of raw items that have a gid, a headline and a posttime
CompleteItems(raw_events) ==
    Cardinality({i \in 1..Len(raw_events) :
                    /\ raw_events[i].ann
                    /\ raw_events[i].gid # ""
                    /\ raw_events[i].headline # ""
                    /\ raw_events[i].posttime # None})

\* main.py 56-61: the fetch of one cycle
FetchEvents ==
    /\ cycles < MaxCycles
    /\ \E response \in Responses :
       \E raw_events \in (IF response = "ok" THEN Batches ELSE {<<>>}) :
         LET fetched == fetch_latest_events(response, raw_events, last_posttime)
         IN  /\ new_events' = fetched
             /\ batch' = TimestampsOf(AllParsedInBatch(response, raw_events))
             /\ feed' = [response |-> IF response = "ok" THEN "ok" ELSE "failed",
                         raw |-> Len(raw_events),
                         complete |-> CompleteItems(raw_events)]
             /\ raised' = fetch_raises(response)
             /\ pc' = IF fetch_raises(response) THEN "except"
                      ELSE IF fetched = <<>> THEN "after_try" ELSE "for"
    /\ fetch_cursor' = last_posttime
    /\ idx' = 1
    /\ cycles' = cycles + 1
    /\ slept' = 0
    /\ UNCHANGED <<file, app_state, last_posttime, keep_running, now, restarts,
                   offered, outcome, accepting, calls, posts, saves, save_failed, store>>

\* main.py 53-61: the loop test and the fetch of one cycle
Poll ==
    /\ UNCHANGED aux
    /\ pc = "while"
    /\ keep_running
    /\ FetchEvents

\* main.py 53, 106: the loop test fails
LoopExit ==
    /\ UNCHANGED aux
    /\ pc = "while"
    /\ ~keep_running
    /\ pc' = "ended"
    /\ UNCHANGED <<file, app_state, last_posttime, keep_running, new_events, idx, now,
                   cycles, restarts, hist, store>>

\* the loop as it would be with lines 77-80 placed where an exception of
\* post_update does not skip them
AdvancesOnException(result) == result \in {"True", "AttributeError"}

\* the loop as it would be with lines 77-80 outside the `if success:`
AdvancesUnconditionally(result) == TRUE

\* main.py 76: `if success:` is reached with the value post_update returned;
\* an exception leaves the try block before it
Advances(result) == result = "True"

\* main.py 77-80: what the success branch does to last_posttime, app_state
\* and the file
AfterSuccess(event, io) ==
    /\ last_posttime' = event.timestamp
    /\ app_state' = set_last_processed_posttime(app_state, event.timestamp)
    /\ file' = save_state(set_last_processed_posttime(app_state, event.timestamp), file, io)
    /\ saves' = saves + 1
    /\ save_failed' = (save_failed \/ io # "ok")
    /\ store_op' = io
    /\ prev_file' = file
    /\ UNCHANGED loaded

\* main.py 68-87: the event is given to post_update and the result handled
PostEvent(flair, submitOk, replyOk, io) ==
    LET event == new_events[idx]
        r == post_update(event, flair, submitOk, replyOk)
    IN  /\ offered' = Append(offered, event)
        /\ outcome' = r.result
        /\ accepting' = submitOk
        /\ calls' = calls \o r.calls
        /\ posts' = IF r.result = "True" THEN Append(posts, <<event.gid, now>>) ELSE posts
        /\ raised' = (r.result \notin {"True", "False"})
        /\ UNCHANGED <<fetch_cursor, batch, feed, slept>>
        /\ IF Advances(r.result)
           THEN AfterSuccess(event, io)
           ELSE UNCHANGED <<file, app_state, last_posttime, saves, save_failed,
                            store>>
        /\ idx' = IF r.result = "True" THEN idx + 1 ELSE idx
        /\ pc' = CASE r.result = "True" ->
                         IF idx + 1 <= Len(new_events) THEN "for" ELSE "after_try"
                    [] r.result = "False" -> "after_try"
                    [] OTHER -> "except"

\* main.py 63-87: one iteration of the for loop. (An answer of Reddit that
\* post_update does not come to ask for, and an outcome of a save that is
\* not made, are not told apart.)
ProcessEvent ==
    /\ pc = "for"
    /\ idx <= Len(new_events)
    /\ IF ~ProceedsToPost
       THEN /\ pc' = "after_try"
            /\ UNCHANGED <<file, app_state, last_posttime, idx, hist, store>>
       ELSE \E flair \in FlairOutcomes, submitOk \in BOOLEAN, replyOk \in BOOLEAN,
               io \in SaveOutcomes :
            LET r == post_update(new_events[idx], flair, submitOk, replyOk)
            IN  /\ (~Advances(r.result) => io = "ok")
                /\ ("reply" \notin {r.calls[i] : i \in 1..Len(r.calls)} => replyOk)
                /\ PostEvent(flair, submitOk, replyOk, io)
    /\ UNCHANGED <<keep_running, new_events, now, cycles, restarts, aux>>

\* main.py 96-99 as it would be without the sleep
ErrorWaitNone(running) == 0

\* main.py 96-99: the sleep of the except clause
ErrorWait(running) == IF running THEN error_wait_time ELSE 0

\* main.py 92-99: the handler of an exception raised inside the cycle
ErrorBackoff ==
    /\ UNCHANGED aux
    /\ pc = "except"
    /\ now' = now + ErrorWait(keep_running)
    /\ slept' = slept + ErrorWait(keep_running)
    /\ pc' = "after_try"
    /\ UNCHANGED <<file, app_state, last_posttime, keep_running, new_events, idx,
                   cycles, restarts, fetch_cursor, batch, offered, outcome, accepting,
                   calls, posts, saves, save_failed, feed, raised, store>>

\* main.py 101-104 as it would be without the sleep
PollWaitNone(running) == 0

\* main.py 101-104: the sleep before the next loop test
PollWait(running) == IF running THEN steam_poll_interval_seconds ELSE 0

\* main.py 101-104: the sleep that ends every cycle. The cycle's locals and
\* the cycle's history are dead from here on and are cleared.
EndCycle(wait) ==
    /\ now' = now + wait
    /\ slept' = slept + wait
    /\ feed' = NoFeed
    /\ pc' = "while"
    /\ new_events' = <<>>
    /\ idx' = 1
    /\ fetch_cursor' = None
    /\ batch' = <<>>
    /\ offered' = <<>>
    /\ outcome' = "none"
    /\ accepting' = FALSE
    /\ calls' = <<>>
    /\ saves' = 0
    /\ UNCHANGED <<file, app_state, last_posttime, keep_running, cycles, restarts, posts,
                   save_failed, raised, store>>

\* main.py 101-104: the test of keep_running and the sleep
PollSleep ==
    /\ UNCHANGED aux
    /\ pc = "after_try"
    /\ EndCycle(PollWait(keep_running))

\* main.py 34-38: SIGINT or SIGTERM, at any point of the loop
signal_handler ==
    /\ UNCHANGED aux
    /\ pc \notin {"start", "ended", "crashed"}
    /\ keep_running
    /\ keep_running' = FALSE
    /\ UNCHANGED <<file, app_state, last_posttime, pc, new_events, idx, now,
                   cycles, restarts, hist, store>>

\* The process ends (the loop ended, or it was killed between two steps)
\* and is started again: memory is lost, the file and the posts remain.
Restart ==
    /\ UNCHANGED aux
    /\ pc # "start"
    /\ restarts < MaxRestarts
    /\ restarts' = restarts + 1
    /\ pc' = "start"
    /\ keep_running' = TRUE
    /\ app_state' = EmptyDict
    /\ last_posttime' = None
    /\ new_events' = <<>>
    /\ idx' = 1
    /\ fetch_cursor' = None
    /\ batch' = <<>>
    /\ offered' = <<>>
    /\ outcome' = "none"
    /\ accepting' = FALSE
    /\ calls' = <<>>
    /\ saves' = 0
    /\ feed' = NoFeed
    /\ raised' = FALSE
    /\ slept' = 0
    /\ store_op' = "none"
    /\ prev_file' = MissingFile
    /\ loaded' = {}
    /\ UNCHANGED <<file, now, cycles, posts, save_failed>>

Next ==
    \/ LoadState
    \/ Poll
    \/ LoopExit
    \/ ProcessEvent
    \/ ErrorBackoff
    \/ PollSleep
    \/ signal_handler
    \/ Restart

Spec == Init /\ [][Next]_vars

\* ------------------------------------------ the loop, statement by statement
\* polling_loop with every test of keep_running a step of its own, so that
\* a signal can arrive between a test and the statement it guards. pc is
\* "fetch", "post", "error_sleep" or "poll_sleep" when the test before that
\* statement has passed and the statement has not begun.

\* the test as it would be if it always passed
TestAlwaysPasses(running) == TRUE

\* main.py 53, 64, 96, 101: the value of keep_running a test reads
Test(running) == running

\* main.py 53: while keep_running
WhileTest ==
    /\ pc = "while"
    /\ pc' = IF Test(keep_running) THEN "fetch" ELSE "ended"
    /\ UNCHANGED <<file, app_state, last_posttime, keep_running, new_events, idx, now,
                   cycles, restarts, hist, store, aux>>

\* main.py 56-61
FetchStep ==
    /\ pc = "fetch"
    /\ FetchEvents
    /\ UNCHANGED aux

\* main.py 63-66: if not keep_running: break
ForTest ==
    /\ pc = "for"
    /\ idx <= Len(new_events)
    /\ pc' = IF Test(keep_running) THEN "post" ELSE "after_try"
    /\ UNCHANGED <<file, app_state, last_posttime, keep_running, new_events, idx, now,
                   cycles, restarts, hist, store, aux>>

\* main.py 68-87
PostStep ==
    /\ pc = "post"
    /\ \E flair \in FlairOutcomes, submitOk \in BOOLEAN, replyOk \in BOOLEAN,
          io \in SaveOutcomes :
        LET r == post_update(new_events[idx], flair, submitOk, replyOk)
        IN  /\ (~Advances(r.result) => io = "ok")
            /\ ("reply" \notin {r.calls[i] : i \in 1..Len(r.calls)} => replyOk)
            /\ PostEvent(flair, submitOk, replyOk, io)
    /\ UNCHANGED <<keep_running, new_events, now, cycles, restarts, aux>>

\* main.py 92-96: the except clause up to if keep_running
ExceptTest ==
    /\ pc = "except"
    /\ pc' = IF Test(keep_running) THEN "error_sleep" ELSE "after_try"
    /\ UNCHANGED <<file, app_state, last_posttime, keep_running, new_events, idx, now,
                   cycles, restarts, hist, store, aux>>

\* main.py 97-99: time.sleep(error_wait_time)
ExceptSleep ==
    /\ pc = "error_sleep"
    /\ now' = now + error_wait_time
    /\ slept' = slept + error_wait_time
    /\ pc' = "after_try"
    /\ UNCHANGED <<file, app_state, last_posttime, keep_running, new_events, idx,
                   cycles, restarts, fetch_cursor, batch, offered, outcome, accepting,
                   calls, posts, saves, save_failed, feed, raised, store, aux>>

\* main.py 101: if keep_running
SleepTest ==
    /\ pc = "after_try"
    /\ IF Test(keep_running)
       THEN /\ pc' = "poll_sleep"
            /\ UNCHANGED <<file, app_state, last_posttime, keep_running, new_events,
                           idx, now, cycles, restarts, hist, store>>
       ELSE EndCycle(0)
    /\ UNCHANGED aux

\* main.py 102-104: time.sleep(config.steam_poll_interval_seconds)
SleepStep ==
    /\ pc = "poll_sleep"
    /\ EndCycle(steam_poll_interval_seconds)
    /\ UNCHANGED aux

StatementNext ==
    \/ LoadState
    \/ WhileTest
    \/ FetchStep
    \/ ForTest
    \/ PostStep
    \/ ExceptTest
    \/ ExceptSleep
    \/ SleepTest
    \/ SleepStep
    \/ signal_handler

SpecStatements == Init /\ [][StatementNext]_vars

\* --------------------------------------------------- state_manager alone
\* The functions of state_manager.py applied as polling_loop applies them
\* (load_state and get at the start, then set and save_state), and
\* save_state also applied to the dict as loaded, over every file a start
\* can find, every newer posttime and every outcome of the save's I/O.

\* a key of the state file that no version of the program writes
KEY_EXTRA == "comment"

StoreKeys == {STATE_KEY_LAST_EVENT_POSTTIME, KEY_LAST_PUBLISH, KEY_EXTRA}

\* JSON objects with any of the keys, each an integer or null
StoreFiles ==
    {MissingFile, CorruptFile, JsonArrayFile}
    \cup {JsonFile(d) : d \in UNION {[ks -> Timestamps \cup {None}] : ks \in SUBSET StoreKeys}}

StoreInit ==
    /\ file \in StoreFiles
    /\ app_state = EmptyDict
    /\ last_posttime = None
    /\ keep_running = TRUE
    /\ pc = "store_start"
    /\ new_events = <<>>
    /\ idx = 1
    /\ now = 0
    /\ cycles = 0
    /\ restarts = 0
    /\ fetch_cursor = None
    /\ batch = <<>>
    /\ offered = <<>>
    /\ outcome = "none"
    /\ accepting = FALSE
    /\ calls = <<>>
    /\ posts = <<>>
    /\ saves = 0
    /\ save_failed = FALSE
    /\ feed = NoFeed
    /\ raised = FALSE
    /\ slept = 0
    /\ store_op = "none"
    /\ prev_file = MissingFile
    /\ loaded = {}
    /\ AuxInit

StoreFrame ==
    UNCHANGED <<keep_running, new_events, idx, now, cycles, fetch_cursor, batch,
                offered, outcome, accepting, calls, posts, feed, raised, slept, aux>>

\* main.py 49-50: load_state, then get_last_processed_posttime
StoreLoad ==
    /\ pc = "store_start"
    /\ IF HasGet(load_state_type(file))
       THEN /\ app_state' = load_state(file)
            /\ last_posttime' = get_last_processed_posttime(load_state(file))
            /\ pc' = "store"
       ELSE /\ pc' = "store_crashed"
            /\ UNCHANGED <<app_state, last_posttime>>
    /\ store_op' = "load"
    /\ loaded' = file.pairs
    /\ UNCHANGED <<file, restarts, saves, save_failed, prev_file>>
    /\ StoreFrame

\* main.py 77-78: the cursor is set to the posttime of a newer event
StoreSet ==
    /\ pc = "store"
    /\ store_op \in {"load", "ok", "open_failed", "write_failed"}
    /\ \E posttime \in Timestamps :
        /\ last_posttime # None => IsNewer(posttime, last_posttime)
        /\ last_posttime' = posttime
        /\ app_state' = set_last_processed_posttime(app_state, posttime)
    /\ store_op' = "set"
    /\ UNCHANGED <<file, pc, restarts, saves, save_failed, prev_file, loaded>>
    /\ StoreFrame

\* main.py 79: save_state(app_state, config); also state_manager.py 34-44
\* applied to the dict as it was loaded
StoreSave ==
    /\ pc = "store"
    /\ store_op \in {"load", "set"}
    /\ \E io \in SaveOutcomes :
        /\ file' = save_state(app_state, file, io)
        /\ store_op' = io
        /\ save_failed' = (save_failed \/ io # "ok")
    /\ saves' = saves + 1
    /\ prev_file' = file
    /\ UNCHANGED <<app_state, last_posttime, pc, restarts, loaded>>
    /\ StoreFrame

\* the process ends and is started again on the file it left
StoreRestart ==
    /\ pc \in {"store", "store_crashed"}
    /\ restarts < MaxRestarts
    /\ restarts' = restarts + 1
    /\ pc' = "store_start"
    /\ app_state' = EmptyDict
    /\ last_posttime' = None
    /\ saves' = 0
    /\ store_op' = "none"
    /\ prev_file' = MissingFile
    /\ loaded' = {}
    /\ UNCHANGED <<file, save_failed>>
    /\ StoreFrame

StoreNext ==
    \/ StoreLoad
    \/ StoreSet
    \/ StoreSave
    \/ StoreRestart

SpecStore == StoreInit /\ [][StoreNext]_vars

\* ------------------------------------------- one cycle, Reddit observed
\* The first cycle of the loop from every start, with the answers Reddit
\* holds ready for post_update written down, whether post_update comes to
\* ask for them or not.

\* main.py 53-61, the first fetch of the run
FirstPoll ==
    /\ cycles = 0
    /\ Poll

\* main.py 63-87 with keep_running set
ObservedProcessEvent ==
    /\ pc = "for"
    /\ idx <= Len(new_events)
    /\ ProceedsToPost
    /\ \E flair \in FlairOutcomes, submitOk \in BOOLEAN, replyOk \in BOOLEAN,
          io \in SaveOutcomes :
        /\ (~Advances(post_update(new_events[idx], flair, submitOk, replyOk).result)
                => io = "ok")
        /\ PostEvent(flair, submitOk, replyOk, io)
        /\ reddit' = [flair |-> flair, submit |-> submitOk, reply |-> replyOk,
                      flair_id |-> _find_flair_id(reddit_flair_text, flair)]
    /\ UNCHANGED <<keep_running, new_events, now, cycles, restarts, raw_batch,
                   markdown_output, processed>>

PublishNext ==
    \/ LoadState
    \/ FirstPoll
    \/ ObservedProcessEvent
    \/ ErrorBackoff
    \/ PollSleep

SpecPublish == Init /\ [][PublishNext]_vars

\* ------------------------------------------------ the line post-pass alone
\* reddit_client.py 74-94 applied to every short text html2text can hand
\* over. A text is the sequence of its characters.

\* the characters a text is made of: brackets, colon, blank, a list marker,
\* a letter, and the line feed
Alphabet == {"[", "]", ":", " ", "-", "x", "\n"}

Texts == UNION {[1..n -> Alphabet] : n \in 0..MaxText}

\* \s of the patterns, and the characters str.strip removes
IsSpace(c) == c \in {" ", "\n"}

\* the first character a subsection_pattern match refuses besides \s: \-*+
IsMarkerNever(c) == FALSE
IsMarker(c) == c \in {"-", "*", "+"}

\* str.strip()
strip(text) ==
    LET ink == {i \in 1..Len(text) : ~IsSpace(text[i])}
    IN  IF ink = {} THEN <<>>
        ELSE SubSeq(text, CHOOSE i \in ink : \A j \in ink : i <= j,
                          CHOOSE i \in ink : \A j \in ink : j <= i)

\* str.splitlines(), for a text whose line boundaries are line feeds
RECURSIVE splitlines(_)
splitlines(text) ==
    IF text = <<>> THEN <<>>
    ELSE LET feeds == {i \in 1..Len(text) : text[i] = "\n"}
         IN  IF feeds = {} THEN <<text>>
             ELSE LET k == CHOOSE i \in feeds : \A j \in feeds : i <= j
                  IN  <<SubSeq(text, 1, k - 1)>>
                          \o splitlines(SubSeq(text, k + 1, Len(text)))

\* "\n".join(lines)
RECURSIVE join(_)
join(lines) ==
    IF lines = <<>> THEN <<>>
    ELSE IF Len(lines) = 1 THEN lines[1]
    ELSE lines[1] \o <<"\n">> \o join(Tail(lines))

\* The ways ^\[\s*(.+?)\s*\]\s*$ matches the line: <<a, b>> where the first
\* \s* ends at position a and the group is the positions a+1 .. b.
SectionMatches(line) ==
    {m \in (1..Len(line)) \X (1..Len(line)) :
        /\ line[1] = "["
        /\ \A i \in 2..m[1] : IsSpace(line[i])
        /\ m[2] >= m[1] + 1
        /\ \E c \in (m[2] + 1)..Len(line) :
              /\ \A i \in (m[2] + 1)..(c - 1) : IsSpace(line[i])
              /\ line[c] = "]"
              /\ \A i \in (c + 1)..Len(line) : IsSpace(line[i])}

\* section_pattern.match(line) is not None
section_pattern(line) == SectionMatches(line) # {}

\* section_match.group(1): the first \s* is greedy and .+? is not, so the
\* match found first has the largest a and, for it, the smallest b
section_group(line) ==
    LET ms == SectionMatches(line)
        a == CHOOSE x \in {m[1] : m \in ms} : \A m \in ms : m[1] <= x
        b == CHOOSE y \in {m[2] : m \in {n \in ms : n[1] = a}} :
                 \A m \in {n \in ms : n[1] = a} : y <= m[2]
    IN  SubSeq(line, a + 1, b)

\* The ways ^([^\s\-*+][^:]*?):\s*$ matches the line: the position of the
\* colon after the group.
SubsectionMatches(line) ==
    {k \in 2..Len(line) :
        /\ ~IsSpace(line[1])
        /\ ~IsMarker(line[1])
        /\ \A i \in 2..(k - 1) : line[i] # ":"
        /\ line[k] = ":"
        /\ \A i \in (k + 1)..Len(line) : IsSpace(line[i])}

\* subsection_pattern.match(line) is not None
subsection_pattern(line) == SubsectionMatches(line) # {}

\* subsection_match.group(1): [^:]*? is not greedy, the first colon that
\* allows a match ends the group
subsection_group(line) ==
    LET ks == SubsectionMatches(line)
    IN  SubSeq(line, 1, (CHOOSE k \in ks : \A j \in ks : k <= j) - 1)

\* reddit_client.py 82-93: the line appended to processed_lines for a line
processed_line(line) ==
    IF section_pattern(line)
    THEN <<"#", "#", "#", " ">> \o strip(section_group(line))
    ELSE IF subsection_pattern(line)
    THEN <<"#", "#", "#", "#", " ">> \o strip(subsection_group(line))
    ELSE line

\* reddit_client.py 74-94: RedditClient._convert_bbcode_to_markdown from the
\* value of h.handle(html_output) on
_convert_bbcode_to_markdown(rendered) ==
    LET lines == splitlines(strip(rendered))
    IN  join([i \in 1..Len(lines) |-> processed_line(lines[i])])

TransformInit ==
    /\ file = MissingFile
    /\ app_state = EmptyDict
    /\ last_posttime = None
    /\ keep_running = TRUE
    /\ pc = "rendered"
    /\ new_events = <<>>
    /\ idx = 1
    /\ now = 0
    /\ cycles = 0
    /\ restarts = 0
    /\ fetch_cursor = None
    /\ batch = <<>>
    /\ offered = <<>>
    /\ outcome = "none"
    /\ accepting = FALSE
    /\ calls = <<>>
    /\ posts = <<>>
    /\ saves = 0
    /\ save_failed = FALSE
    /\ feed = NoFeed
    /\ raised = FALSE
    /\ slept = 0
    /\ store_op = "none"
    /\ prev_file = MissingFile
    /\ loaded = {}
    /\ reddit = NoAnswers
    /\ raw_batch = <<>>
    /\ markdown_output \in Texts
    /\ processed = <<>>

\* reddit_client.py 74-94
Transform ==
    /\ pc = "rendered"
    /\ processed' = _convert_bbcode_to_markdown(markdown_output)
    /\ pc' = "converted"
    /\ UNCHANGED <<file, app_state, last_posttime, keep_running, new_events, idx,
                   now, cycles, restarts, hist, store, reddit, raw_batch,
                   markdown_output>>

TransformNext == Transform

SpecTransform == TransformInit /\ [][TransformNext]_vars

\* --------------------------------------------------------- the fetch alone
\* steam_client.py 106-147 applied once to every short data["events"] and
\* every cursor.

FetchInit ==
    /\ file = MissingFile
    /\ app_state = EmptyDict
    /\ last_posttime \in Timestamps \cup {None}
    /\ keep_running = TRUE
    /\ pc = "fetching"
    /\ new_events = <<>>
    /\ idx = 1
    /\ now = 0
    /\ cycles = 0
    /\ restarts = 0
    /\ fetch_cursor = None
    /\ batch = <<>>
    /\ offered = <<>>
    /\ outcome = "none"
    /\ accepting = FALSE
    /\ calls = <<>>
    /\ posts = <<>>
    /\ saves = 0
    /\ save_failed = FALSE
    /\ feed = NoFeed
    /\ raised = FALSE
    /\ slept = 0
    /\ store_op = "none"
    /\ prev_file = MissingFile
    /\ loaded = {}
    /\ reddit = NoAnswers
    /\ raw_batch \in Batches
    /\ markdown_output = <<>>
    /\ processed = <<>>

\* main.py 56: fetch_latest_events(last_event_posttime=last_posttime) on a
\* response whose events are raw_batch
Fetch ==
    /\ pc = "fetching"
    /\ new_events' = fetch_latest_events("ok", raw_batch, last_posttime)
    /\ pc' = "fetched"
    /\ UNCHANGED <<file, app_state, last_posttime, keep_running, idx, now, cycles,
                   restarts, hist, store, aux>>

FetchNext == Fetch

SpecFetch == FetchInit /\ [][FetchNext]_vars

\* ----------------------------------------------------------------- claims
Range(seq) == {seq[i] : i \in 1..Len(seq)}
MaxOf(seq) == CHOOSE m \in Range(seq) : \A x \in Range(seq) : x <= m

\* The cursor the file holds, read from its text.
FileCursor(f) ==
    IF f.kind = "json" /\ \E p \in f.pairs : p[1] = STATE_KEY_LAST_EVENT_POSTTIME
    THEN (CHOOSE p \in f.pairs : p[1] = STATE_KEY_LAST_EVENT_POSTTIME)[2]
    ELSE None

\* The for loop of this cycle has just handed an event to post_update and no
\* time has passed since.
JustHandled ==
    /\ offered # <<>>
    /\ \/ pc = "except"
       \/ pc = "after_try" /\ outcome \in {"True", "False"}

\* The cycle handed an event to post_update and the loop is through with it.
CycleHandled == pc = "after_try" /\ offered # <<>>

LastOffered == offered[Len(offered)]

\* C1 (as claimed): after each event handled while Reddit accepts
\* submissions, last_posttime equals that event's timestamp (and so never
\* decreases). Violated: post_update raises AttributeError at
\* reddit_client.py:181, the loop swallows it and the cursor stays.
C1_CursorFollowsHandledEvent ==
    (CycleHandled /\ accepting) => last_posttime = LastOffered.timestamp

C4_SuccessAdvancesBoth ==
    (JustHandled /\ accepting)
        => /\ outcome = "True"
           /\ last_posttime = LastOffered.timestamp
           /\ LastPublishTimestampSec = now
           /\ saves = Len(offered)
           /\ FileCursor(file) = LastOffered.timestamp

C6_RetriedUntilPublished ==
    (CycleHandled /\ accepting) => \E i \in 1..Len(posts) : posts[i][1] = LastOffered.gid

\* C7: in a cycle at most one event is handed to post_update and at most
\* one submit is made; the event is the one fetch_latest_events returned and
\* carries the greatest timestamp of the parsed batch; after a post_update
\* that did not return True the for loop is over.
C7_OnePerCycle ==
    /\ Len(new_events) <= 1
    /\ Len(offered) <= 1
    /\ Cardinality({i \in 1..Len(calls) : calls[i] = "submit"}) <= 1
    /\ offered # <<>> => /\ offered = new_events
                         /\ batch # <<>>
                         /\ offered[1].timestamp = MaxOf(batch)
    /\ outcome \in {"False", "AttributeError"} => pc # "for"

C7_Witness ==
    /\ Len(batch) >= 2
    /\ \E i, j \in 1..Len(batch) : batch[i] < batch[j]
    /\ \A i \in 1..Len(batch) : IsNewer(batch[i], fetch_cursor)
    /\ CycleHandled

\* C8: when the newest parsed item of the response is not newer than the
\* cursor given to the fetch, the cycle has no new event: nothing is handed
\* to post_update, Reddit is not called, nothing is saved and the cursor is
\* the one the fetch was given.
C8_NotNewerIsNoEvent ==
    (batch # <<>> /\ fetch_cursor # None /\ MaxOf(batch) <= fetch_cursor)
        => /\ new_events = <<>>
           /\ offered = <<>>
           /\ calls = <<>>
           /\ saves = 0
           /\ pc # "for"
           /\ last_posttime = fetch_cursor

C8_Witness ==
    /\ pc = "after_try"
    /\ batch # <<>>
    /\ fetch_cursor # None
    /\ MaxOf(batch) = fetch_cursor

C10_SavedAfterEachEvent ==
    (CycleHandled /\ accepting)
        => /\ saves = Len(offered)
           /\ last_posttime = LastOffered.timestamp
           /\ (~save_failed => FileCursor(file) = last_posttime)

\* ------------------------------------------------- claims C11 to C20
\* the cycle's feed request was answered and held no item
EmptyFeed == feed.response = "ok" /\ feed.raw = 0

\* the cycle's feed request failed (status, transport, body, success flag)
FetchFailed == feed.response = "failed"

\* C11 (as claimed): with an empty cursor and a feed of one new update
\* item, the first cycle publishes it: submit is called, post_update returns
\* True, the last-processed field becomes the event's timestamp and the
\* last-publish field the current time. Violated: the AttributeError of
\* reddit_client.py:181 precedes the submit.
C11_OneNewUpdatePublished ==
    (/\ JustHandled
     /\ accepting
     /\ cycles = 1
     /\ loaded = {}
     /\ fetch_cursor = None
     /\ feed.raw = 1
     /\ feed.complete = 1)
        => /\ "submit" \in Range(calls)
           /\ outcome = "True"
           /\ last_posttime = LastOffered.timestamp
           /\ LastPublishTimestampSec = now

\* C12: a feed without items is no error. The fetch returns no event, the
\* cycle calls neither post_update nor Reddit nor save_state, does not pass
\* through the except clause, leaves last_posttime and the file as they
\* were, and sleeps the poll interval and nothing else before the next loop
\* test.
C12_EmptyFeedIsQuiet ==
    /\ [](EmptyFeed => /\ pc = "after_try"
                       /\ new_events = <<>>
                       /\ offered = <<>>
                       /\ calls = <<>>
                       /\ saves = 0
                       /\ ~raised
                       /\ slept = 0
                       /\ last_posttime = fetch_cursor)
    /\ [][(EmptyFeed /\ pc' = "while")
            => /\ file' = file
               /\ last_posttime' = last_posttime
               /\ app_state' = app_state
               /\ now' = now + (IF keep_running THEN steam_poll_interval_seconds ELSE 0)
               /\ slept' = now' - now]_vars

C12_Witness ==
    /\ EmptyFeed
    /\ pc = "after_try"
    /\ keep_running
    /\ last_posttime # None
    /\ FileCursor(file) = last_posttime

\* C13 (as claimed): after a failed fetch the loop takes the error path and
\* backs off 30 s.
C13_FetchErrorBacksOff ==
    (FetchFailed /\ pc = "after_try" /\ keep_running)
        => /\ raised
           /\ slept = error_wait_time

\* C13 (amended): a failed fetch is caught inside fetch_latest_events and
\* reaches the loop as an empty list, like a feed without news: the except
\* clause is not entered, nothing is posted or saved, the cursor and the
\* file stay, and the loop sleeps the poll interval, not 30 s.
C13_FetchErrorIsEmptyList ==
    /\ [](FetchFailed => /\ pc = "after_try"
                         /\ new_events = <<>>
                         /\ batch = <<>>
                         /\ offered = <<>>
                         /\ calls = <<>>
                         /\ saves = 0
                         /\ ~raised
                         /\ slept = 0
                         /\ last_posttime = fetch_cursor)
    /\ [][(FetchFailed /\ pc' = "while")
            => /\ file' = file
               /\ last_posttime' = last_posttime
               /\ slept' = (IF keep_running THEN steam_poll_interval_seconds ELSE 0)]_vars

C13_Witness ==
    /\ FetchFailed
    /\ pc = "after_try"
    /\ keep_running
    /\ last_posttime # None

\* C14 (as claimed): after a cycle that ended in the except clause the loop
\* is back at its fetch having slept the 30 s backoff.
C14_BackoffThenFetch ==
    (pc = "while" /\ raised /\ keep_running) => slept = error_wait_time

\* C14 (amended): an exception raised in a cycle is swallowed: the loop ends
\* only when keep_running is cleared, the cursor is the one the cycle's
\* fetch was given and nothing was saved; the loop sleeps the 30 s backoff
\* and then also the poll interval before the next fetch. The poll interval
\* alone is the sleep of a cycle without an exception.
C14_SwallowedBackoffPlusPoll ==
    /\ [](/\ pc = "except" => /\ raised
                              /\ slept = 0
                              /\ saves = 0
                              /\ last_posttime = fetch_cursor
          /\ (raised /\ pc = "after_try")
                => /\ saves = 0
                   /\ last_posttime = fetch_cursor
                   /\ slept \in {0, error_wait_time}
                   /\ keep_running => slept = error_wait_time
          /\ (raised /\ pc = "while" /\ keep_running)
                => slept = error_wait_time + steam_poll_interval_seconds
          /\ raised => pc \in {"except", "after_try", "while", "ended"}
          /\ pc = "ended" => ~keep_running)
    /\ [][(pc = "after_try" /\ pc' = "while" /\ keep_running /\ ~raised)
            => /\ slept' = steam_poll_interval_seconds
               /\ now' = now + steam_poll_interval_seconds]_vars
    /\ [][(raised /\ pc' # "start") => /\ last_posttime' = last_posttime
                                       /\ file' = file]_vars

C14_Witness ==
    /\ pc = "while"
    /\ raised
    /\ keep_running
    /\ cycles < MaxCycles
    /\ slept = error_wait_time + steam_poll_interval_seconds

\* C15 (as claimed): whatever the state file holds, the start does not end
\* the process; when the file is missing, unreadable, not JSON or JSON that
\* is no object, the loop starts with an empty cursor. Violated: for a file
\* holding [] load_state returns the list and state.get raises outside
\* every try.
C15_LoadNeverFails ==
    /\ pc # "crashed"
    /\ (store_op = "load" /\ pc # "start" /\ file.kind # "json")
         => /\ last_posttime = None
            /\ app_state = EmptyDict

\* C16 (as claimed): a save_state that did not write the file leaves the
\* process running with the new cursor in memory and the file as it was
\* before the call. Violated: the file is opened with "w" before the write
\* and is left truncated when the write fails.
C16_FailedSaveKeepsFile ==
    (/\ store_op \in {"open_failed", "write_failed"}
     /\ FileCursor(prev_file) # None
     /\ IsNewer(last_posttime, FileCursor(prev_file)))
        => /\ pc = "store"
           /\ get_last_processed_posttime(app_state) = last_posttime
           /\ file = prev_file

C18_ExtraKeysDropped ==
    store_op = "ok"
        => \A p \in file.pairs : p[1] \in {STATE_KEY_LAST_EVENT_POSTTIME, KEY_LAST_PUBLISH}

\* C18 (amended): keys other than last_processed_event_posttime do not
\* affect the cursor the load gives, and are kept on save: after a load and
\* a save, every such member the load found is in the file unchanged.
C18_ExtraKeysKept ==
    /\ (store_op = "load" /\ pc = "store")
         => /\ last_posttime = FileCursor(file)
            /\ \A p \in loaded : DictGet(app_state, p[1]) = p[2]
    /\ store_op = "ok"
         => \A p \in loaded : p[1] # STATE_KEY_LAST_EVENT_POSTTIME => p \in file.pairs

C18_Witness ==
    /\ store_op = "ok"
    /\ \E p \in loaded : p[1] = KEY_EXTRA /\ p \in file.pairs
    /\ FileCursor(file) # FileCursor(prev_file)

\* C19 (as claimed): every raw item with gid, headline and posttime becomes
\* an event, with or without a keyword in its headline, and reaches
\* post_update: a first fetch that holds such an item yields an event.
\* Violated: _parse_event_data returns None for a headline without keyword.
C19_CompleteItemsReachPublish ==
    (feed.complete > 0 /\ fetch_cursor = None)
        => /\ new_events # <<>>
           /\ (pc = "after_try" /\ keep_running) => offered # <<>>

\* C20 (as claimed): the items the parse drops are exactly those without
\* gid, headline or posttime; a dropped item raises nothing and the other
\* items of the batch are still parsed.
C20_DropsExactlyIncomplete ==
    feed.response = "ok"
        => /\ Len(batch) = feed.complete
           /\ offered = <<>> => ~raised

\* The events of this cycle's batch of the same UTC day as the event and
\* not after it.
SameDayUpTo(event) ==
    {i \in 1..Len(batch) : /\ UtcDate(batch[i]) = UtcDate(event.timestamp)
                          /\ batch[i] <= event.timestamp}

\* C21 (as claimed): the event given to the publisher carries a sequence
\* number equal to the number of events of its batch of the same UTC day
\* with a timestamp not after its own, and its title carries "#N" exactly
\* when that number exceeds 1. Violated: nothing in the program computes a
\* sequence number, ParsedSteamEvent has no such field, and
\* _format_post_title raises AttributeError where it reads it.
C21_SequenceNumberCounted ==
    offered # <<>>
        => /\ SequenceNumberOf(LastOffered) = Cardinality(SameDayUpTo(LastOffered))
           /\ _format_post_title(LastOffered).result = "title"
           /\ (_format_post_title(LastOffered).suffix # None)
                  <=> (SequenceNumberOf(LastOffered) > 1)

\* C22 (as claimed): when Reddit accepts the submission of an event and
\* fails the reply to it, post_update still returns True, the cursor
\* advances to the event's timestamp and is saved. Violated: the
\* AttributeError of reddit_client.py:181 precedes the submit.
C22_ReplyFailureStillSuccess ==
    (JustHandled /\ reddit.submit /\ ~reddit.reply)
        => /\ outcome = "True"
           /\ "submit" \in Range(calls)
           /\ last_posttime = LastOffered.timestamp
           /\ saves = Len(offered)
           /\ FileCursor(file) = LastOffered.timestamp

\* C23 (as claimed): with a flair text configured and a lookup that
\* returns no id (no match, forbidden, or any other failure), the
\* submission is still attempted, without flair_id; a flair_id goes with
\* the submission only when the lookup returned one. Violated: the lookup
\* is made and returns None, and the AttributeError of
\* reddit_client.py:181 precedes the submit.
C23_NoFlairStillSubmits ==
    /\ (JustHandled /\ reddit.flair # "found")
          => /\ "link_templates" \in Range(calls)
             /\ reddit.flair_id = ""
             /\ "submit" \in Range(calls)
    /\ (JustHandled /\ reddit.flair_id # "") => reddit.flair = "found"

\* The lines the post-pass reads and the lines of the text it returns.
InputLines == splitlines(strip(markdown_output))
OutputLines == splitlines(processed)

\* the position of the last character of the line that is no blank, 0 for
\* a line of blanks
LastInk(line) ==
    LET ink == {i \in 1..Len(line) : line[i] # " "}
    IN  IF ink = {} THEN 0 ELSE CHOOSE i \in ink : \A j \in ink : j <= i

\* "[" first, "]" last before trailing blanks, something between them
Bracketed(line) ==
    /\ LastInk(line) >= 3
    /\ line[1] = "["
    /\ line[LastInk(line)] = "]"

StartsPlain(line) == line[1] \notin {" ", "-", "*", "+"}

\* the trailing-colon rule as claimed: the only colon of the line is its
\* last character
ColonAsClaimed(line) ==
    /\ LastInk(line) >= 1
    /\ StartsPlain(line)
    /\ line[LastInk(line)] = ":"
    /\ \A i \in 1..(LastInk(line) - 1) : line[i] # ":"

\* the trailing-colon rule of the code: something before the last colon,
\* and no colon between the first character and the last colon
ColonOfCode(line) ==
    /\ LastInk(line) >= 2
    /\ StartsPlain(line)
    /\ line[LastInk(line)] = ":"
    /\ \A i \in 2..(LastInk(line) - 1) : line[i] # ":"

\* the output line the rules give for a line
Promoted(line, Colon(_)) ==
    IF Bracketed(line)
    THEN <<"#", "#", "#", " ">> \o strip(SubSeq(line, 2, LastInk(line) - 1))
    ELSE IF Colon(line)
    THEN <<"#", "#", "#", "#", " ">> \o strip(SubSeq(line, 1, LastInk(line) - 1))
    ELSE line

OrdersOf(seq) ==
    {[i \in 1..Len(seq) |-> seq[f[i]]] :
        f \in {g \in [1..Len(seq) -> 1..Len(seq)] :
                  \A i, j \in 1..Len(seq) : g[i] = g[j] => i = j}}

\* the positions of the items of a response that _parse_event_data turns
\* into an event
ValidAt(raw_events) ==
    {i \in 1..Len(raw_events) : _parse_event_data(raw_events[i]) # NoEvent}

\* the greatest timestamp of the valid items of a response, None without one
MaxValidTimestamp(raw_events) ==
    IF ValidAt(raw_events) = {} THEN None
    ELSE LET ts == {raw_events[i].posttime : i \in ValidAt(raw_events)}
         IN  CHOOSE m \in ts : \A t \in ts : t <= m

\* the fetch hands over the event of a valid item of the greatest timestamp
\* if that is past the cursor (or there is no cursor), and nothing otherwise
LatestPastCursor(raw_events, result) ==
    LET m == MaxValidTimestamp(raw_events)
    IN  /\ Len(result) <= 1
        /\ result # <<>> <=> (m # None /\ (last_posttime = None \/ m > last_posttime))
        /\ result # <<>>
              => /\ result[1].timestamp = m
                 /\ \E i \in ValidAt(raw_events) :
                       result[1] = _parse_event_data(raw_events[i])

\* C25 (as claimed): the fetch returns the same candidate for every order
\* of the items of the response: at most one event, that of a valid item
\* of the greatest timestamp, and only if it is past the cursor.
C25_CandidateOrderFree ==
    pc = "fetched"
        => \A q \in OrdersOf(raw_batch) :
              /\ fetch_latest_events("ok", q, last_posttime) = new_events
              /\ LatestPastCursor(q, fetch_latest_events("ok", q, last_posttime))

\* C25 (amended): for every order the fetch returns at most one event, that
\* of a valid item of the greatest timestamp, only if it is past the
\* cursor, and with the same timestamp for every order; of the valid items
\* of the greatest timestamp it is the one that comes last in the response.
C25_LatestOfEveryOrder ==
    pc = "fetched"
        => \A q \in OrdersOf(raw_batch) :
              LET r == fetch_latest_events("ok", q, last_posttime)
                  top == {i \in ValidAt(q) : q[i].posttime = MaxValidTimestamp(q)}
              IN  /\ TimestampsOf(r) = TimestampsOf(new_events)
                  /\ LatestPastCursor(q, r)
                  /\ r # <<>>
                       => r[1] = _parse_event_data(
                                    q[CHOOSE i \in top : \A j \in top : j <= i])

\* a response with two valid items of the greatest timestamp has been
\* fetched, and the other order gives the other event
C25_Witness ==
    /\ pc = "fetched"
    /\ new_events # <<>>
    /\ \E q \in OrdersOf(raw_batch) :
          /\ fetch_latest_events("ok", q, last_posttime) # <<>>
          /\ fetch_latest_events("ok", q, last_posttime) # new_events

\* C26: wherever the loop stands outside lines 77-79, last_posttime is the
\* value app_state holds under last_processed_event_posttime (None when it
\* holds none), and a save made there would write that value to the file.
C26_LocalCursorIsDictCursor ==
    pc = "store"
        => /\ last_posttime = DictGet(app_state, STATE_KEY_LAST_EVENT_POSTTIME)
           /\ FileCursor(save_state(app_state, file, "ok")) = last_posttime

\* the cursor has been loaded from the file and then moved past it
C26_Witness ==
    /\ pc = "store"
    /\ store_op = "set"
    /\ <<STATE_KEY_LAST_EVENT_POSTTIME, last_posttime>> \notin loaded
    /\ \E p \in loaded : p[1] = STATE_KEY_LAST_EVENT_POSTTIME /\ p[2] # None
    /\ last_posttime # None

\* The statements of the loop that test keep_running, and the statements
\* such a test guards.
TestPoints == {"while", "for", "except", "after_try"}
GuardedPoints == {"fetch", "post", "error_sleep", "poll_sleep"}

\* how far the loop is from its end once every test fails
Rank(p) ==
    CASE p = "ended" -> 0
      [] p = "while" -> 1
      [] p = "poll_sleep" -> 2
      [] p = "after_try" -> 3
      [] p = "error_sleep" -> 4
      [] p = "except" -> 5
      [] p = "for" -> 6
      [] p = "post" -> 7
      [] p = "fetch" -> 8
      [] OTHER -> 9

\* the step begins no fetch, no post_update and no sleep
StartsNothing ==
    /\ cycles' = cycles
    /\ Len(offered') <= Len(offered)
    /\ Len(calls') <= Len(calls)
    /\ now' = now
    /\ slept' = slept

====
